---- MODULE Spec2Model ----
(***************************************************************************)
(* pyHexDump, command "checksum": the bit-serial CRC of calc_checksum and  *)
(* the command _cmd_checksum that loads a file, calls it and prints the    *)
(* result (src/src/pyHexDump/cmd_checksum.py).                             *)
(*                                                                         *)
(* Python integers are unbounded, and a register of width 32 holds 33 and  *)
(* more bits between the shift and the final mask.  An unsigned integer is *)
(* therefore modelled by the set of the positions of its 1 bits, so that   *)
(* 0x07 is {0,1,2}: xor is the symmetric difference, and is intersection,  *)
(* a left shift adds to every position.                                    *)
(***************************************************************************)
EXTENDS Integers, Sequences, FiniteSets

\* ------------------------------------------------------------ bounds

\* Addresses of a range are drawn from 0..MaxAddr (start and end alike).
MaxAddr == 2

\* ------------------------------------------------ unsigned integers

\* The bit set of a number below 2^31.
Bits(n) == {i \in 0..30 : (n \div (2^i)) % 2 = 1}

BXor(a, b) == (a \ b) \cup (b \ a)
BAnd(a, b) == a \cap b
BOr(a, b) == a \cup b
\* a << k
Shl(a, k) == {i + k : i \in a}
\* pow(2, w) - 1
Pow2Minus1(w) == 0..(w - 1)

MaxOf(s) == CHOOSE m \in s : \A x \in s : x <= m

\* f"{v:0{width}b}": the binary digits of v, most significant first, padded
\* with zeros on the left to at least `width` characters.
FormatBin(v, width) ==
    LET digits == IF v = {} THEN 1 ELSE MaxOf(v) + 1
        n == IF digits > width THEN digits ELSE width
    IN [k \in 1..n |-> IF (n - k) \in v THEN "1" ELSE "0"]

\* tmp[::-1]
ReverseStr(s) == [k \in 1..Len(s) |-> s[Len(s) + 1 - k]]

\* int(s, 2)
ParseBin(s) == {Len(s) - k : k \in {j \in 1..Len(s) : s[j] = "1"}}

\* ------------------------------------------------------------ inputs

OK == "OK"
ERROR_CRC_CACLULATION == "ERROR_CRC_CACLULATION"
\* What the loader reports for a missing, unreadable or malformed file.
LoadErrors == {"ERROR_INPUT_FILE_OPEN", "ERROR_INPUT_FILE_FORMAT"}

\* Memory images: the byte at address a is the image's element a + 1.
Images ==
    { <<Bits(0), Bits(1), Bits(128), Bits(255)>>,
      <<Bits(1), Bits(165), Bits(49), Bits(0)>>,
      <<Bits(128), Bits(254), Bits(90), Bits(19)>> }

\* 8, 16 and 32 are valid; the others are not.
BitWidths == {8, 16, 32, 0, 12, 64}

\* 0, 0xFFFFFFFF, and a seed of 34 bits (wider than every register).
Seeds == { {}, 0..31, {0, 9, 17, 33} }

\* 0x07, 0x04C11DB7 (the default), and a polynomial of 36 bits.
Polynomials == { Bits(7), Bits(79764919), {0, 2, 8, 15, 16, 32, 35} }

Args ==
    [ binary_data : Images,
      start_address : 0..MaxAddr,
      end_address : 0..MaxAddr,
      polynomial : Polynomials,
      bit_width : BitWidths,
      seed : Seeds,
      reverse_input : BOOLEAN,
      reverse_output : BOOLEAN,
      final_xor : BOOLEAN ]

\* ------------------------------------------- collaborators (not in src)

\* MemAccessU8.get_size(): the access word is one byte.
get_size == 1

\* MemAccessU8.get_value(binary_data, address): the byte at the address.
get_value(binary_data, address) == binary_data[address + 1]

\* --------------------------------------------- calc_checksum, by line

\* CountOf with the length of the range taken without its sign: C10 rests on
\* the sign of the count.
CountOf_Unsigned(start_address, end_address) ==
    IF end_address >= start_address
    THEN (end_address - start_address) \div get_size
    ELSE (start_address - end_address) \div get_size

\* count = (end_address - start_address) / mem_access.get_size()
CountOf(start_address, end_address) ==
    (end_address - start_address) \div get_size

\* ValidBitWidth accepting every multiple of four: C3 rests on the check.
ValidBitWidth_MultipleOfFour(bit_width) == bit_width % 4 = 0

\* Valid bit widths: 8, 16, 32
ValidBitWidth(bit_width) ==
    ~((bit_width # 8) /\ (bit_width # 16) /\ (bit_width # 32))

\* The number to calculate the CRC has to be a multiple of word size
Aligned(start_address, end_address) ==
    (end_address - start_address) % get_size = 0

\* bit_width_mask = pow(2, bit_width) - 1
BitWidthMask(bit_width) == Pow2Minus1(bit_width)

\* msb_mask = 1 << bit_width
MsbMask(bit_width) == Shl(Bits(1), bit_width)

\* polynomial = (1 << bit_width) | polynomial
WidenPolynomial(polynomial, bit_width) ==
    BOr(Shl(Bits(1), bit_width), polynomial)

\* LoopContinues with the bound included: C9 rests on the loop test.
LoopContinues_Inclusive(count) == count >= 0

\* while count > 0
LoopContinues(count) == count > 0

\* ReverseInput that leaves the byte as read: C6 rests on the reflection.
ReverseInput_Skipped(word, reverse_input) == word

\* if reverse_input: tmp = f"{word:08b}"; word = int(tmp[::-1], 2)
ReverseInput(word, reverse_input) ==
    IF reverse_input THEN ParseBin(ReverseStr(FormatBin(word, 8))) ELSE word

\* crc = crc ^ (word << (bit_width - 8))
XorWord(crc, word, bit_width) == BXor(crc, Shl(word, bit_width - 8))

\* ShiftStep testing the top bit before the shift: C7 rests on the order.
ShiftStep_TestFirst(crc, msb_mask, polynomial) ==
    IF BAnd(crc, msb_mask) # {} THEN BXor(Shl(crc, 1), polynomial)
    ELSE Shl(crc, 1)

\* crc = crc << 1; if (crc & msb_mask) != 0: crc = crc ^ polynomial
ShiftStep(crc, msb_mask, polynomial) ==
    LET shifted == Shl(crc, 1)
    IN IF BAnd(shifted, msb_mask) # {} THEN BXor(shifted, polynomial)
       ELSE shifted

\* MaskCrc without the mask: C1 rests on the truncation.
MaskCrc_Unmasked(crc, bit_width_mask) == crc

\* crc &= bit_width_mask
MaskCrc(crc, bit_width_mask) == BAnd(crc, bit_width_mask)

\* if reverse_output: tmp = f"{word:0{bit_width}b}"; word = int(tmp[::-1], 2)
\* The statement assigns word ...
ReverseOutputWord(word, bit_width, reverse_output) ==
    IF reverse_output THEN ParseBin(ReverseStr(FormatBin(word, bit_width)))
    ELSE word

\* ReverseOutputCrc assigning the reflection to crc, as the docstring has it:
\* C4 rests on crc being left alone.
ReverseOutputCrc_Applied(crc, word, bit_width, reverse_output) ==
    IF reverse_output THEN ParseBin(ReverseStr(FormatBin(crc, bit_width)))
    ELSE crc

\* ... and leaves crc as it is.
ReverseOutputCrc(crc, word, bit_width, reverse_output) == crc

\* FinalXor with the constant 0xff of the docstring: C2 rests on the mask.
FinalXor_0xFF(crc, bit_width_mask, final_xor) ==
    IF final_xor THEN BXor(crc, Bits(255)) ELSE crc

\* if final_xor: crc = crc ^ bit_width_mask
FinalXor(crc, bit_width_mask, final_xor) ==
    IF final_xor THEN BXor(crc, bit_width_mask) ELSE crc

\* ------------------------------------------- _cmd_checksum, by line

\* CallGuard that lets every status through: C8 rests on the guard.
CallGuard_Always(ret_status) == TRUE

\* if ret_status == Ret.OK: (before the call of calc_checksum)
CallGuard(ret_status) == ret_status = OK

\* if ret_status == Ret.OK: (before the print)
PrintGuard(ret_status) == ret_status = OK

\* value_width = bit_width // 4
ValueWidth(bit_width) == bit_width \div 4

\* ------------------------------------------------------------- state

VARIABLES
    args,            \* the arguments of _cmd_checksum, passed on to calc_checksum
    pc,              \* the statement to execute next
    load_status,     \* what common_load_binary_file returned ("none" before)
    cmd_ret_status,  \* ret_status of _cmd_checksum
    checksum,        \* checksum of _cmd_checksum
    console,         \* the calls of common_print_value so far
    returned,        \* what _cmd_checksum returned ("none" before)
    ret_status,      \* the locals of calc_checksum ...
    offset,
    count,
    bit_width_mask,
    msb_mask,
    crc,
    word,
    polynomial,
    shift,           \* the position of `for _ in range(8)`
    calc_result,     \* what calc_checksum returned (<<>> before)
    engine_calls,    \* history: the number of calls of calc_checksum
    reads,           \* history: the addresses handed to get_value, in order
    shifts           \* history: the shift steps of each finished iteration

vars ==
    <<args, pc, load_status, cmd_ret_status, checksum, console, returned,
      ret_status, offset, count, bit_width_mask, msb_mask, crc, word,
      polynomial, shift, calc_result, engine_calls, reads, shifts>>

cmd_vars ==
    <<load_status, cmd_ret_status, checksum, console, returned>>

calc_vars ==
    <<ret_status, offset, count, bit_width_mask, msb_mask, crc, word,
      polynomial, shift, calc_result, reads, shifts>>

\* The state before _cmd_checksum runs, for the arguments a.
InitWith(a) ==
    /\ args = a
    /\ pc = "cmd_load"
    /\ load_status = "none"
    /\ cmd_ret_status = "none"
    /\ checksum = {}
    /\ console = <<>>
    /\ returned = "none"
    /\ ret_status = "none"
    /\ offset = 0
    /\ count = 0
    /\ bit_width_mask = {}
    /\ msb_mask = {}
    /\ crc = {}
    /\ word = {}
    /\ polynomial = {}
    /\ shift = 0
    /\ calc_result = <<>>
    /\ engine_calls = 0
    /\ reads = <<>>
    /\ shifts = <<>>

Init == \E a \in Args : InitWith(a)

\* ------------------------------------------------------ _cmd_checksum

\* ret_status, intel_hex = common_load_binary_file(binary_file)
CmdLoad ==
    /\ pc = "cmd_load"
    /\ \E status \in {OK} \cup LoadErrors :
          /\ load_status' = status
          /\ cmd_ret_status' = status
    /\ pc' = "cmd_call_guard"
    /\ UNCHANGED <<args, checksum, console, returned, engine_calls>>
    /\ UNCHANGED calc_vars

\* if ret_status == Ret.OK: ret_status, checksum = calc_checksum(...)
CmdCallGuard ==
    /\ pc = "cmd_call_guard"
    /\ IF CallGuard(cmd_ret_status)
       THEN /\ pc' = "calc_start"
            /\ engine_calls' = engine_calls + 1
       ELSE /\ pc' = "cmd_print_guard"
            /\ UNCHANGED engine_calls
    /\ UNCHANGED args
    /\ UNCHANGED cmd_vars
    /\ UNCHANGED calc_vars

\* The call returns: ret_status, checksum = <what calc_checksum returned>
CmdAssign ==
    /\ pc = "cmd_assign"
    /\ cmd_ret_status' = calc_result[1]
    /\ checksum' = calc_result[2]
    /\ pc' = "cmd_print_guard"
    /\ UNCHANGED <<args, load_status, console, returned, engine_calls>>
    /\ UNCHANGED calc_vars

\* if ret_status == Ret.OK: common_print_value(checksum, value_format)
CmdPrintGuard ==
    /\ pc = "cmd_print_guard"
    /\ IF PrintGuard(cmd_ret_status)
       THEN console' = Append(console,
                [value |-> checksum, width |-> ValueWidth(args.bit_width)])
       ELSE UNCHANGED console
    /\ pc' = "cmd_return"
    /\ UNCHANGED <<args, load_status, cmd_ret_status, checksum, returned,
                   engine_calls>>
    /\ UNCHANGED calc_vars

\* return ret_status
CmdReturn ==
    /\ pc = "cmd_return"
    /\ returned' = cmd_ret_status
    /\ pc' = "cmd_done"
    /\ UNCHANGED <<args, load_status, cmd_ret_status, checksum, console,
                   engine_calls>>
    /\ UNCHANGED calc_vars

\* ------------------------------------------------------ calc_checksum

\* ret_status = Ret.OK; offset = 0; count = (end - start) / get_size()
CalcStart ==
    /\ pc = "calc_start"
    /\ ret_status' = OK
    /\ offset' = 0
    /\ count' = CountOf(args.start_address, args.end_address)
    /\ pc' = "calc_validate"
    /\ UNCHANGED <<args, engine_calls, bit_width_mask, msb_mask, crc, word,
                   polynomial, shift, calc_result, reads, shifts>>
    /\ UNCHANGED cmd_vars

\* The two checks, each with its `return ret_status, 0`.
CalcValidate ==
    /\ pc = "calc_validate"
    /\ IF ~ValidBitWidth(args.bit_width)
          \/ ~Aligned(args.start_address, args.end_address)
       THEN /\ ret_status' = ERROR_CRC_CACLULATION
            /\ calc_result' = <<ERROR_CRC_CACLULATION, Bits(0)>>
            /\ pc' = "cmd_assign"
       ELSE /\ pc' = "calc_setup"
            /\ UNCHANGED <<ret_status, calc_result>>
    /\ UNCHANGED <<args, engine_calls, offset, count, bit_width_mask,
                   msb_mask, crc, word, polynomial, shift, reads, shifts>>
    /\ UNCHANGED cmd_vars

\* bit_width_mask, msb_mask, crc = seed, word = 0, polynomial widened
CalcSetup ==
    /\ pc = "calc_setup"
    /\ bit_width_mask' = BitWidthMask(args.bit_width)
    /\ msb_mask' = MsbMask(args.bit_width)
    /\ crc' = args.seed
    /\ word' = Bits(0)
    /\ polynomial' = WidenPolynomial(args.polynomial, args.bit_width)
    /\ pc' = "calc_while"
    /\ UNCHANGED <<args, engine_calls, ret_status, offset, count, shift,
                   calc_result, reads, shifts>>
    /\ UNCHANGED cmd_vars

\* while count > 0: count -= 1
CalcWhile ==
    /\ pc = "calc_while"
    /\ IF LoopContinues(count)
       THEN /\ count' = count - 1
            /\ pc' = "calc_word"
       ELSE /\ pc' = "calc_mask"
            /\ UNCHANGED count
    /\ UNCHANGED <<args, engine_calls, ret_status, offset, bit_width_mask,
                   msb_mask, crc, word, polynomial, shift, calc_result,
                   reads, shifts>>
    /\ UNCHANGED cmd_vars

\* word = get_value(binary_data, start_address + offset); the reflection of
\* the input byte; crc = crc ^ (word << (bit_width - 8))
CalcWord ==
    /\ pc = "calc_word"
    /\ LET address == args.start_address + offset
           w == ReverseInput(get_value(args.binary_data, address),
                             args.reverse_input)
       IN /\ reads' = Append(reads, address)
          /\ word' = w
          /\ crc' = XorWord(crc, w, args.bit_width)
    /\ shift' = 0
    /\ pc' = "calc_shift"
    /\ UNCHANGED <<args, engine_calls, ret_status, offset, count,
                   bit_width_mask, msb_mask, polynomial, calc_result, shifts>>
    /\ UNCHANGED cmd_vars

\* for _ in range(8): one pass of the body, or the end of the loop and
\* offset += mem_access.get_size()
CalcShift ==
    /\ pc = "calc_shift"
    /\ IF shift < 8
       THEN /\ crc' = ShiftStep(crc, msb_mask, polynomial)
            /\ shift' = shift + 1
            /\ UNCHANGED <<offset, shifts, pc>>
       ELSE /\ offset' = offset + get_size
            /\ shifts' = Append(shifts, shift)
            /\ pc' = "calc_while"
            /\ UNCHANGED <<crc, shift>>
    /\ UNCHANGED <<args, engine_calls, ret_status, count, bit_width_mask,
                   msb_mask, word, polynomial, calc_result, reads>>
    /\ UNCHANGED cmd_vars

\* crc &= bit_width_mask
CalcMask ==
    /\ pc = "calc_mask"
    /\ crc' = MaskCrc(crc, bit_width_mask)
    /\ pc' = "calc_reverse_output"
    /\ UNCHANGED <<args, engine_calls, ret_status, offset, count,
                   bit_width_mask, msb_mask, word, polynomial, shift,
                   calc_result, reads, shifts>>
    /\ UNCHANGED cmd_vars

\* if reverse_output: tmp = f"{word:0{bit_width}b}"; word = int(tmp[::-1], 2)
CalcReverseOutput ==
    /\ pc = "calc_reverse_output"
    /\ word' = ReverseOutputWord(word, args.bit_width, args.reverse_output)
    /\ crc' = ReverseOutputCrc(crc, word, args.bit_width, args.reverse_output)
    /\ pc' = "calc_final_xor"
    /\ UNCHANGED <<args, engine_calls, ret_status, offset, count,
                   bit_width_mask, msb_mask, polynomial, shift, calc_result,
                   reads, shifts>>
    /\ UNCHANGED cmd_vars

\* if final_xor: crc = crc ^ bit_width_mask
CalcFinalXor ==
    /\ pc = "calc_final_xor"
    /\ crc' = FinalXor(crc, bit_width_mask, args.final_xor)
    /\ pc' = "calc_return"
    /\ UNCHANGED <<args, engine_calls, ret_status, offset, count,
                   bit_width_mask, msb_mask, word, polynomial, shift,
                   calc_result, reads, shifts>>
    /\ UNCHANGED cmd_vars

\* return ret_status, crc
CalcReturn ==
    /\ pc = "calc_return"
    /\ calc_result' = <<ret_status, crc>>
    /\ pc' = "cmd_assign"
    /\ UNCHANGED <<args, engine_calls, ret_status, offset, count,
                   bit_width_mask, msb_mask, crc, word, polynomial, shift,
                   reads, shifts>>
    /\ UNCHANGED cmd_vars

Next ==
    \/ CmdLoad
    \/ CmdCallGuard
    \/ CalcStart
    \/ CalcValidate
    \/ CalcSetup
    \/ CalcWhile
    \/ CalcWord
    \/ CalcShift
    \/ CalcMask
    \/ CalcReverseOutput
    \/ CalcFinalXor
    \/ CalcReturn
    \/ CmdAssign
    \/ CmdPrintGuard
    \/ CmdReturn

Spec == Init /\ [][Next]_vars

\* The command for one byte b and one polynomial p of eight bits, width 8,
\* seed 0, no flag set, over the range [0, 1).
InitCrc8 ==
    \E b \in 0..255, p \in 0..255 :
        InitWith([ binary_data |-> <<Bits(b)>>,
                   start_address |-> 0,
                   end_address |-> 1,
                   polynomial |-> Bits(p),
                   bit_width |-> 8,
                   seed |-> Bits(0),
                   reverse_input |-> FALSE,
                   reverse_output |-> FALSE,
                   final_xor |-> FALSE ])

SpecCrc8 == InitCrc8 /\ [][Next]_vars

\* ------------------------------------- calc_checksum as one function

RECURSIVE ShiftTimes(_, _, _, _)
\* for _ in range(n): the shift step, n times
ShiftTimes(c, n, msb, poly) ==
    IF n = 0 THEN c ELSE ShiftTimes(ShiftStep(c, msb, poly), n - 1, msb, poly)

\* One iteration of the while loop for the arguments a, from crc c at
\* offset off: <<crc, word>> after it.
Iteration(a, c, off) ==
    LET nw == ReverseInput(get_value(a.binary_data, a.start_address + off),
                           a.reverse_input)
    IN <<ShiftTimes(XorWord(c, nw, a.bit_width), 8, MsbMask(a.bit_width),
                    WidenPolynomial(a.polynomial, a.bit_width)),
         nw>>

RECURSIVE WhileLoop(_, _, _, _)
\* The while loop from the state s = <<crc, word>>, offset off and count cnt,
\* for the arguments a: <<crc, word>> when it ends.  (The state after an
\* iteration is bound by a set constructor, so that it is a value, not an
\* expression that grows with every iteration.)
WhileLoop(a, s, off, cnt) ==
    IF LoopContinues(cnt)
    THEN CHOOSE r \in {WhileLoop(a, t, off + get_size, cnt - 1) :
                           t \in {Iteration(a, s[1], off)}} : TRUE
    ELSE s

\* What calc_checksum returns for the arguments a: <<status, checksum>>.
CalcChecksum(a) ==
    IF ~ValidBitWidth(a.bit_width) \/ ~Aligned(a.start_address, a.end_address)
    THEN <<ERROR_CRC_CACLULATION, Bits(0)>>
    ELSE LET mask == BitWidthMask(a.bit_width)
             end == WhileLoop(a, <<a.seed, Bits(0)>>, 0,
                              CountOf(a.start_address, a.end_address))
             masked == MaskCrc(end[1], mask)
             reversed == ReverseOutputCrc(masked, end[2], a.bit_width,
                                          a.reverse_output)
         IN <<OK, FinalXor(reversed, mask, a.final_xor)>>

\* The statements, run one by one, return what the function returns.
StepsAgreeWithFunction ==
    calc_result # <<>> => calc_result = CalcChecksum(args)

\* ------------------------------------------------------------ claims

\* calc_checksum has returned, and returned OK.
CalcReturned == calc_result # <<>>
CalcReturnedOK == CalcReturned /\ calc_result[1] = OK

\* The bit reflector of the specification: the low w bits of v in reverse
\* order, the bits above them dropped.
Reflect(v, w) == {w - 1 - i : i \in (v \cap (0..(w - 1)))}

\* The number 2^w - 1: w one bits.
AllOnes(w) == {i \in 0..w : i < w}

RECURSIVE PolyMod(_, _)
\* The remainder of the polynomial n divided by the polynomial g (g # 0) over
\* GF(2), by long division from the leading coefficient down.
PolyMod(n, g) ==
    IF n = {} \/ MaxOf(n) < MaxOf(g) THEN n
    ELSE PolyMod(BXor(n, Shl(g, MaxOf(n) - MaxOf(g))), g)

\* C1: a successful calc_checksum returns a checksum in [0, 2^bit_width - 1],
\* whatever the width of the seed and of the polynomial and whatever the flags.
C1_ResultInRange ==
    CalcReturnedOK =>
        \A i \in calc_result[2] : 0 <= i /\ i < args.bit_width

\* C1's case: width 32, a seed and a polynomial wider than the register,
\* two bytes processed, a checksum that is not 0.
C1_Witness ==
    /\ CalcReturnedOK
    /\ args.bit_width = 32
    /\ 33 \in args.seed
    /\ 35 \in args.polynomial
    /\ Len(reads) = 2
    /\ calc_result[2] # {}

C3_InvalidWidth ==
    (args.bit_width \notin {8, 16, 32}) =>
        /\ reads = <<>>
        /\ CalcReturned =>
              /\ calc_result[1] # OK
              /\ calc_result[2] = Bits(0)

\* C3's case: width 12 over a range of two bytes, calc_checksum has returned.
C3_Witness ==
    /\ args.bit_width = 12
    /\ args.start_address = 0
    /\ args.end_address = 2
    /\ CalcReturned

C5_OutputReflected ==
    (CalcReturnedOK /\ args.reverse_output /\ ~args.final_xor) =>
        calc_result[2] =
            Reflect(CalcChecksum([args EXCEPT !.reverse_output = FALSE])[2],
                    args.bit_width)

\* The image with every byte replaced by its reflection over 8 bits.
ReflectedImage(binary_data) ==
    [k \in DOMAIN binary_data |-> Reflect(binary_data[k], 8)]

\* C6: with reverse_input set calc_checksum returns what the same call with
\* reverse_input clear returns over the image of the reflected bytes.
C6_ReverseInputEquivalence ==
    (CalcReturned /\ args.reverse_input) =>
        calc_result =
            CalcChecksum([args EXCEPT !.reverse_input = FALSE,
                             !.binary_data = ReflectedImage(args.binary_data)])

\* C6's case, scenario C: the byte 0x80 with reverse_input, polynomial 0x07,
\* width 8, seed 0, gives 0x07, the checksum of the byte 0x01.
C6_Witness ==
    /\ CalcReturnedOK
    /\ args.reverse_input
    /\ args.bit_width = 8
    /\ args.seed = Bits(0)
    /\ args.polynomial = Bits(7)
    /\ ~args.final_xor
    /\ reads = <<args.start_address>>
    /\ get_value(args.binary_data, args.start_address) = Bits(128)
    /\ calc_result[2] = Bits(7)

\* The arguments of C7: width 8, seed 0, no flag, a range of one byte, a
\* polynomial of eight bits.
Crc8OneByte ==
    /\ args.bit_width = 8
    /\ args.seed = Bits(0)
    /\ ~args.reverse_input /\ ~args.reverse_output /\ ~args.final_xor
    /\ args.end_address = args.start_address + 1
    /\ args.polynomial \subseteq 0..7

\* C7: for these arguments the checksum of the byte b is the remainder of
\* b * x^8 divided by x^8 + polynomial over GF(2); with the polynomial 0x07
\* the byte 0x00 gives 0x00 and the byte 0x01 gives 0x07.
C7_Crc8IsRemainder ==
    (CalcReturned /\ Crc8OneByte) =>
        LET b == get_value(args.binary_data, args.start_address)
        IN /\ calc_result[1] = OK
           /\ calc_result[2] =
                 PolyMod(Shl(b, 8), BOr(Shl(Bits(1), 8), args.polynomial))
           /\ (args.polynomial = Bits(7) /\ b = Bits(0)) =>
                 calc_result[2] = Bits(0)
           /\ (args.polynomial = Bits(7) /\ b = Bits(1)) =>
                 calc_result[2] = Bits(7)

\* C7's case, scenario B: the byte 0x01, polynomial 0x07, checksum 0x07.
C7_Witness ==
    /\ CalcReturnedOK
    /\ Crc8OneByte
    /\ args.polynomial = Bits(7)
    /\ get_value(args.binary_data, args.start_address) = Bits(1)
    /\ calc_result[2] = Bits(7)

\* C8: calc_checksum is called only after the load returned OK; a value is
\* printed only after the load and calc_checksum both returned OK; after a
\* failed load calc_checksum is not called, nothing is printed and the
\* command returns the loader's status.
C8_CommandOrder ==
    /\ (engine_calls > 0 \/ CalcReturned) => load_status = OK
    /\ console # <<>> =>
          /\ load_status = OK
          /\ CalcReturnedOK
          /\ console = <<[value |-> calc_result[2],
                          width |-> args.bit_width \div 4]>>
    /\ load_status \in LoadErrors =>
          /\ engine_calls = 0
          /\ ~CalcReturned
          /\ console = <<>>
          /\ returned \in {"none", load_status}
          /\ pc = "cmd_done" => returned = load_status

\* C8's case: the command is done, the load and one call of calc_checksum
\* succeeded, and the checksum was printed.
C8_Witness ==
    /\ pc = "cmd_done"
    /\ engine_calls = 1
    /\ Len(console) = 1
    /\ returned = OK

\* C8's other case: the command is done after a failed load.
C8_WitnessLoadFailed ==
    /\ pc = "cmd_done"
    /\ load_status \in LoadErrors
    /\ returned = load_status

\* The addresses start, start + 1, ..., start + n - 1.
Ascending(start, n) == [k \in 1..n |-> start + k - 1]

\* C9: for a valid bit_width and start_address <= end_address the addresses
\* read are at every point start, start + 1, ... in ascending order, each
\* once and none outside the range, count is the number of bytes still to
\* read (never negative), a next statement can always run until the command
\* is done, and when calc_checksum returns it has run end - start iterations
\* of 8 shift steps each and read every address of the range.
C9_ExactIterations ==
    (args.bit_width \in {8, 16, 32}
     /\ args.start_address <= args.end_address) =>
        LET n == args.end_address - args.start_address
        IN /\ Len(reads) <= n
           /\ reads = Ascending(args.start_address, Len(reads))
           /\ \A k \in DOMAIN shifts : shifts[k] = 8
           /\ pc \in {"calc_while"} => /\ count = n - Len(reads)
                                       /\ Len(shifts) = Len(reads)
           /\ count >= 0 /\ shift \in 0..8
           /\ pc # "cmd_done" => ENABLED Next
           /\ CalcReturned =>
                 /\ calc_result[1] = OK
                 /\ Len(reads) = n
                 /\ Len(shifts) = n

\* C9's case: calc_checksum has returned from a range of two bytes.
C9_Witness ==
    /\ CalcReturnedOK
    /\ args.start_address = 0
    /\ args.end_address = 2
    /\ reads = <<0, 1>>
    /\ shifts = <<8, 8>>

====
